---- MODULE Spec2Model ----
(***************************************************************************)
(* Model of find_heavy_dirs (src/cmd/find_heavy_dirs.go): root             *)
(* normalization, the WalkDir scan, bottom-up aggregation, result          *)
(* filtering and the two top-N views.                                      *)
(*                                                                         *)
(* A path is a sequence of byte values (47 is '/', 45 '-', 46 '.',         *)
(* 97 'a', 102 'f', 114 117 110 "run"), so that string length, byte-wise   *)
(* ordering, prefix tests and separator counts are those of the Go code.   *)
(***************************************************************************)
EXTENDS Integers, Sequences, FiniteSets, TLC

\* ------------------------------------------------------------------------
\* Strings and paths
\* ------------------------------------------------------------------------

\* os.PathSeparator on the Unix build
Sep == 47

SepStr == <<Sep>>

DotStr == <<46>>

DotDotStr == <<46, 46>>

\* strings.HasPrefix(s, prefix)
HasPrefix(s, prefix) ==
    /\ Len(prefix) <= Len(s)
    /\ SubSeq(s, 1, Len(prefix)) = prefix

\* strings.Count(s, string(os.PathSeparator))
CountSep(s) == Cardinality({i \in 1..Len(s) : s[i] = Sep})

\* Byte-wise string order, the order sort.Strings uses (s < t)
RECURSIVE StrLess(_, _)
StrLess(s, t) ==
    IF t = <<>> THEN FALSE
    ELSE IF s = <<>> THEN TRUE
    ELSE IF Head(s) # Head(t) THEN Head(s) < Head(t)
    ELSE StrLess(Tail(s), Tail(t))

\* strings.Split(s, "/"): the segments between separators
RECURSIVE SplitSep(_)
SplitSep(s) ==
    IF s = <<>> THEN << <<>> >>
    ELSE LET rest == SplitSep(Tail(s)) IN
         IF Head(s) = Sep THEN << <<>> >> \o rest
         ELSE << <<Head(s)>> \o Head(rest) >> \o Tail(rest)

\* The segment rules of filepath.Clean: empty and "." segments are dropped,
\* ".." removes the preceding segment (or is dropped at the root, or kept in
\* a relative path that has nothing left to remove).
RECURSIVE CleanSegs(_, _, _)
CleanSegs(segs, out, rooted) ==
    IF segs = <<>> THEN out
    ELSE LET s == Head(segs) IN
         IF s = <<>> \/ s = DotStr THEN CleanSegs(Tail(segs), out, rooted)
         ELSE IF s = DotDotStr THEN
              IF out # <<>> /\ out[Len(out)] # DotDotStr
              THEN CleanSegs(Tail(segs), SubSeq(out, 1, Len(out) - 1), rooted)
              ELSE IF rooted THEN CleanSegs(Tail(segs), out, rooted)
              ELSE CleanSegs(Tail(segs), Append(out, s), rooted)
         ELSE CleanSegs(Tail(segs), Append(out, s), rooted)

\* strings.Join(segs, "/")
RECURSIVE JoinSegs(_)
JoinSegs(segs) ==
    IF segs = <<>> THEN <<>>
    ELSE IF Len(segs) = 1 THEN Head(segs)
    ELSE Head(segs) \o SepStr \o JoinSegs(Tail(segs))

\* filepath.IsAbs(path)
IsAbs(path) == path # <<>> /\ Head(path) = Sep

\* filepath.Clean(path)
Clean(path) ==
    LET rooted == IsAbs(path)
        body   == JoinSegs(CleanSegs(SplitSep(path), <<>>, rooted))
    IN  IF rooted THEN SepStr \o body
        ELSE IF body = <<>> THEN DotStr
        ELSE body

\* filepath.Join(dir, name)
Join(dir, name) == Clean(dir \o SepStr \o name)

\* Position of the last separator of path, 0 when there is none
LastSep(path) ==
    LET idx == {i \in 1..Len(path) : path[i] = Sep}
    IN  IF idx = {} THEN 0 ELSE CHOOSE i \in idx : \A j \in idx : j <= i

\* filepath.Dir(path): everything up to the last separator, cleaned
Dir(path) == Clean(SubSeq(path, 1, LastSep(path)))

\* filepath.VolumeName(path): always empty on the Unix build
VolumeName(path) == <<>>

\* The result of filepath.Abs(path) when the working directory is wd; the
\* empty string stands for the error Abs returns when os.Getwd fails
NoDir == <<>>

AbsFails(path, cwd) == ~IsAbs(path) /\ cwd = NoDir

\* Abs that joins the working directory without testing IsAbs
AbsAlwaysJoins(path, cwd) == Join(cwd, path)

Abs(path, cwd) ==
    IF IsAbs(path) THEN Clean(path) ELSE Join(cwd, path)

\* ------------------------------------------------------------------------
\* Root normalization
\* ------------------------------------------------------------------------

\* sort.Strings: insertion into an ascending list
RECURSIVE InsertSorted(_, _)
InsertSorted(p, list) ==
    IF list = <<>> THEN <<p>>
    ELSE IF StrLess(Head(list), p) THEN <<Head(list)>> \o InsertSorted(p, Tail(list))
    ELSE <<p>> \o list

\* A sort that leaves the list as it is
SortStringsNoOp(list) == list

RECURSIVE SortStrings(_)
SortStrings(list) ==
    IF list = <<>> THEN <<>>
    ELSE InsertSorted(Head(list), SortStrings(Tail(list)))

\* The absolute paths of the inputs that resolve, in input order
RECURSIVE AbsPaths(_, _)
AbsPaths(paths, cwd) ==
    IF paths = <<>> THEN <<>>
    ELSE IF AbsFails(Head(paths), cwd) THEN AbsPaths(Tail(paths), cwd)
    ELSE <<Abs(Head(paths), cwd)>> \o AbsPaths(Tail(paths), cwd)

\* The test of the sweep: p is taken for a subdirectory of last
IsSub(p, last) ==
    \/ HasPrefix(p, last \o SepStr)
    \/ (last = VolumeName(last) \o SepStr /\ HasPrefix(p, last))

\* The sweep over the sorted list
RECURSIVE Sweep(_, _)
Sweep(absPaths, clean) ==
    IF absPaths = <<>> THEN clean
    ELSE LET p == Head(absPaths) IN
         IF clean = <<>> THEN Sweep(Tail(absPaths), <<p>>)
         ELSE LET last == clean[Len(clean)] IN
              IF p = last THEN Sweep(Tail(absPaths), clean)
              ELSE IF IsSub(p, last) THEN Sweep(Tail(absPaths), clean)
              ELSE Sweep(Tail(absPaths), Append(clean, p))

removeSubdirectories(paths, cwd) ==
    IF paths = <<>> THEN paths
    ELSE Sweep(SortStrings(AbsPaths(paths, cwd)), <<>>)

\* ------------------------------------------------------------------------
\* State
\* ------------------------------------------------------------------------

VARIABLES
    pc,           \* position of main: "parse", "normalize", "scan", "walk",
                  \* "aggregate", "sortSize", "sortCount", "done"
    wd,           \* the working directory os.Getwd reports, NoDir if it fails
    fsDirs,       \* the directories of the filesystem
    fsFiles,      \* the files of the filesystem: path -> size
    fsBad,        \* entries whose read fails (ReadDir of a directory, Info of a file)
    targetPaths,  \* the global targetPaths
    maxDepth,     \* the global maxDepth
    topN,         \* the global topN
    dirStats,     \* the global dirStats: path -> [TotalSize, FileCount]
    rootIdx,      \* index of the loop over targetPaths in main
    todo,         \* entries WalkDir still has to hand to the callback, in order
    totalFiles,   \* totalFiles of main
    pending,      \* paths aggregateStats has not processed yet
    statsList,    \* paths of the filtered statsList of main
    sizeView,     \* rows printed by the first printTable
    countView,    \* rows printed by the second printTable
    requested,    \* history: targetPaths as parsed, before normalization
    direct,       \* history: dirStats when aggregateStats was entered
    recorded,     \* history: the files scanDirectory recorded, in order, each
                  \* with the root whose walk recorded it
    verbose,      \* the global verbose
    diag          \* the warning and error diagnostics printed so far

vars == <<pc, wd, fsDirs, fsFiles, fsBad, targetPaths, maxDepth, topN, dirStats,
          rootIdx, todo, totalFiles, pending, statsList, sizeView, countView,
          requested, direct, recorded, verbose, diag>>

\* excludePaths: "/proc", "/dev", "/sys", "/run"
excludePaths ==
    { <<47, 112, 114, 111, 99>>, <<47, 100, 101, 118>>,
      <<47, 115, 121, 115>>, <<47, 114, 117, 110>> }

\* An exclusion map that was never filled
excludeMapEmpty(path) == FALSE

\* excludeMap[path]
excludeMap(path) == path \in excludePaths

\* The zero DirStat that getDirStat stores for a new path
ZeroStat == [TotalSize |-> 0, FileCount |-> 0]

\* getDirStat(path): the map with an entry for path
getDirStat(stats, path) ==
    IF path \in DOMAIN stats THEN stats
    ELSE [q \in DOMAIN stats \cup {path} |->
            IF q = path THEN ZeroStat ELSE stats[q]]

\* ------------------------------------------------------------------------
\* Filesystem as WalkDir sees it
\* ------------------------------------------------------------------------

IsDirEntry(path) == path \in fsDirs

Exists(path) == path \in fsDirs \/ path \in DOMAIN fsFiles

\* A set of strings as the ascending sequence
RECURSIVE SetToSortedSeq(_)
SetToSortedSeq(S) ==
    IF S = {} THEN <<>>
    ELSE LET x == CHOOSE y \in S : \A z \in S : z = y \/ StrLess(y, z)
         IN  <<x>> \o SetToSortedSeq(S \ {x})

\* os.ReadDir(dir) joined with dir: the entries of dir sorted by name
ReadDir(dir) ==
    SetToSortedSeq({e \in fsDirs \cup DOMAIN fsFiles : e # dir /\ Dir(e) = dir})

\* ------------------------------------------------------------------------
\* main: normalization and the scan loop
\* ------------------------------------------------------------------------

env == <<wd, fsDirs, fsFiles, fsBad, maxDepth, topN, requested, verbose>>

report == <<statsList, sizeView, countView>>

\* The warnings of removeSubdirectories: one "Could not resolve path" for
\* every argument filepath.Abs fails on, printed whatever verbose is
RECURSIVE ResolveWarnings(_, _)
ResolveWarnings(paths, cwd) ==
    IF paths = <<>> THEN <<>>
    ELSE IF AbsFails(Head(paths), cwd)
         THEN <<[kind |-> "resolve", path |-> Head(paths)]>>
                 \o ResolveWarnings(Tail(paths), cwd)
    ELSE ResolveWarnings(Tail(paths), cwd)

\* The warning of the callback when WalkDir hands it an error: printed
\* only when verbose is set
AccessWarning(path, on) ==
    IF on THEN <<[kind |-> "access", path |-> path]>> ELSE <<>>

\* targetPaths = removeSubdirectories(targetPaths)
Normalize ==
    /\ pc = "normalize"
    /\ targetPaths' = removeSubdirectories(targetPaths, wd)
    /\ diag' = diag \o ResolveWarnings(targetPaths, wd)
    /\ rootIdx' = 1
    /\ pc' = "scan"
    /\ UNCHANGED <<env, dirStats, todo, totalFiles, pending, report, direct, recorded>>

\* The root the loop of main is at, as scanDirectory receives it
CurrentRoot == Abs(targetPaths[rootIdx], wd)

\* rootDepth of scanDirectory
RootDepth == CountSep(CurrentRoot)

\* One iteration head of the loop over targetPaths: resolve the root and
\* enter scanDirectory; WalkDir's Lstat of the root decides whether the
\* walk has an entry to visit (a failed Lstat reaches the callback as an
\* error, which it swallows).
StartRoot ==
    /\ pc = "scan"
    /\ rootIdx <= Len(targetPaths)
    /\ IF AbsFails(targetPaths[rootIdx], wd)
       THEN /\ diag' = Append(diag, [kind |-> "resolveRoot", path |-> targetPaths[rootIdx]])
            /\ rootIdx' = rootIdx + 1
            /\ UNCHANGED <<pc, todo>>
       ELSE IF ~Exists(CurrentRoot)
       THEN /\ diag' = diag \o AccessWarning(CurrentRoot, verbose)
            /\ rootIdx' = rootIdx + 1
            /\ UNCHANGED <<pc, todo>>
       ELSE /\ todo' = <<CurrentRoot>>
            /\ pc' = "walk"
            /\ UNCHANGED <<rootIdx, diag>>
    /\ UNCHANGED <<env, targetPaths, dirStats, totalFiles, pending, report,
                   direct, recorded>>

\* currentDepth of the callback
CurrentDepth(path) == CountSep(path) - RootDepth

\* A depth test that also rejects the entries at the limit
TooDeepInclusive(path) == maxDepth # -1 /\ CurrentDepth(path) >= maxDepth

\* The depth test of the callback
TooDeep(path) == maxDepth # -1 /\ CurrentDepth(path) > maxDepth

\* Statistics that charge a file to its parent directory and to the parent
\* of that directory as well
RecordFileUpward(stats, path) ==
    LET dirPath == Dir(path)
        upPath  == Dir(dirPath)
        s       == getDirStat(getDirStat(stats, dirPath), upPath)
        t       == [s EXCEPT ![dirPath] =
                      [TotalSize |-> @.TotalSize + fsFiles[path],
                       FileCount |-> @.FileCount + 1]]
    IN  IF upPath = dirPath THEN t
        ELSE [t EXCEPT ![upPath] =
                [TotalSize |-> @.TotalSize + fsFiles[path],
                 FileCount |-> @.FileCount + 1]]

\* The statistics of the callback for a file whose Info succeeds
RecordFile(stats, path) ==
    LET dirPath == Dir(path)
        s       == getDirStat(stats, dirPath)
    IN  [s EXCEPT ![dirPath] =
            [TotalSize |-> @.TotalSize + fsFiles[path],
             FileCount |-> @.FileCount + 1]]

\* The callback returns SkipDir (a directory) or nil without recording (a
\* file): path is an excluded directory or lies below the depth limit
Pruned(path) == (IsDirEntry(path) /\ excludeMap(path)) \/ TooDeep(path)

\* What WalkDir reads after the callback returned nil for path: the entries
\* of a directory. A failed ReadDir is handed to the callback as an error,
\* the callback returns nil for it and the directory has no entries to visit.
Descend(path) ==
    IF IsDirEntry(path) /\ path \notin fsBad THEN ReadDir(path) ELSE <<>>

\* A walk that a failed read ends: the callback returns the error and
\* WalkDir stops
RemainingAborts(list) ==
    IF Head(list) \in fsBad THEN <<>>
    ELSE IF Pruned(Head(list)) THEN Tail(list)
    ELSE Descend(Head(list)) \o Tail(list)

\* The entries WalkDir still has to visit once the callback has returned
\* for the head of the list
Remaining(list) ==
    IF Pruned(Head(list)) THEN Tail(list)
    ELSE Descend(Head(list)) \o Tail(list)

\* A callback that keeps statistics for files only and stores no entry for
\* a directory it visits
VisitFilesOnly(stats, path) ==
    IF Pruned(path) \/ IsDirEntry(path) THEN stats
    ELSE IF path \notin fsBad THEN RecordFile(stats, path) ELSE stats

\* dirStats after the callback has run for path
Visit(stats, path) ==
    IF Pruned(path) THEN stats
    ELSE IF ~IsDirEntry(path)
         THEN (IF path \notin fsBad THEN RecordFile(stats, path) ELSE stats)
    ELSE getDirStat(stats, path)

\* The callback counts path: a file that is not pruned and whose Info succeeds
Counts(path) == ~Pruned(path) /\ ~IsDirEntry(path) /\ path \notin fsBad

\* WalkDir calls the callback a second time for path, with the error of
\* ReadDir: a directory that was not pruned and cannot be read
ReadDirFails(path) == ~Pruned(path) /\ IsDirEntry(path) /\ path \in fsBad

\* One call of the WalkDir callback, for the entry at the head of todo,
\* and WalkDir's move to the next entry. When the walk ends scanDirectory
\* returns and main moves to the next root.
WalkEntry ==
    /\ pc = "walk"
    /\ todo # <<>>
    /\ dirStats' = Visit(dirStats, Head(todo))
    /\ IF Counts(Head(todo))
       THEN /\ recorded' = Append(recorded, [root |-> CurrentRoot, file |-> Head(todo)])
            /\ totalFiles' = totalFiles + 1
       ELSE UNCHANGED <<recorded, totalFiles>>
    /\ diag' = IF ReadDirFails(Head(todo))
               THEN diag \o AccessWarning(Head(todo), verbose)
               ELSE diag
    /\ todo' = Remaining(todo)
    /\ IF Remaining(todo) = <<>>
       THEN pc' = "scan" /\ rootIdx' = rootIdx + 1
       ELSE UNCHANGED <<pc, rootIdx>>
    /\ UNCHANGED <<env, targetPaths, pending, report, direct>>

\* ------------------------------------------------------------------------
\* aggregateStats
\* ------------------------------------------------------------------------

\* The loop over targetPaths is over: enter aggregateStats and collect the
\* paths of dirStats
AggStart ==
    /\ pc = "scan"
    /\ rootIdx > Len(targetPaths)
    /\ pending' = DOMAIN dirStats
    /\ direct' = dirStats
    /\ pc' = "aggregate"
    /\ UNCHANGED <<env, targetPaths, dirStats, rootIdx, todo, totalFiles, report,
                   recorded, diag>>

\* A comparator that sorts the shortest path first
SortsFirstShortest(p, paths) == \A q \in paths : Len(p) <= Len(q)

\* The comparator of the sort: p may come before every other pending path
\* (no pending path is strictly longer). sort.Slice is not stable and the
\* paths come out of a map, so any order that respects the comparator can
\* be the processing order.
SortsFirst(p, paths) == \A q \in paths : Len(q) <= Len(p)

\* An accumulation loop without the guard against self-aggregation
AccumulateSelf(stats, p) ==
    LET parent == Dir(p) IN
    IF parent \in DOMAIN stats
    THEN [stats EXCEPT ![parent] =
            [TotalSize |-> @.TotalSize + stats[p].TotalSize,
             FileCount |-> @.FileCount + stats[p].FileCount]]
    ELSE stats

\* The body of the accumulation loop for path p
Accumulate(stats, p) ==
    LET parent == Dir(p) IN
    IF parent = p THEN stats
    ELSE IF parent \in DOMAIN stats
    THEN [stats EXCEPT ![parent] =
            [TotalSize |-> @.TotalSize + stats[p].TotalSize,
             FileCount |-> @.FileCount + stats[p].FileCount]]
    ELSE stats

\* One iteration of the accumulation loop, on the next path of the sorted
\* slice
AggStep ==
    /\ pc = "aggregate"
    /\ \E p \in pending :
          /\ SortsFirst(p, pending)
          /\ dirStats' = Accumulate(dirStats, p)
          /\ pending' = pending \ {p}
    /\ UNCHANGED <<env, pc, targetPaths, rootIdx, todo, totalFiles, report,
                   direct, recorded, diag>>

\* ------------------------------------------------------------------------
\* main: filtering and the two views
\* ------------------------------------------------------------------------

\* isUnderTargets(path)
isUnderTargets(path) ==
    \E i \in 1..Len(targetPaths) : HasPrefix(path, Abs(targetPaths[i], wd))

\* aggregateStats has returned: build statsList from the entries that pass
\* isUnderTargets
Filter ==
    /\ pc = "aggregate"
    /\ pending = {}
    /\ statsList' = {p \in DOMAIN dirStats : isUnderTargets(p)}
    /\ pc' = "sortSize"
    /\ UNCHANGED <<env, targetPaths, dirStats, rootIdx, todo, totalFiles, pending,
                   sizeView, countView, direct, recorded, diag>>

\* The keys of the two sorts: less(i, j) is key[i] > key[j]
SizeKey == [p \in DOMAIN dirStats |-> dirStats[p].TotalSize]

CountKey == [p \in DOMAIN dirStats |-> dirStats[p].FileCount]

\* A less(i, j) that sorts ascending
SliceLessAscending(key, p, q) == key[p] < key[q]

\* less(i, j) of sort.Slice, on the keys
SliceLess(key, p, q) == key[p] > key[q]

\* Every order of S that sort.Slice can produce: no element is followed by
\* one that less puts before it (the sort is not stable and the input order
\* is that of a map iteration, so ties fall in any order)
RECURSIVE SortSlice(_, _)
SortSlice(S, key) ==
    IF S = {} THEN { <<>> }
    ELSE UNION { { <<x>> \o t : t \in SortSlice(S \ {x}, key) } :
                 x \in {y \in S : \A z \in S : ~SliceLess(key, z, y)} }

\* The rows printTable prints: the first limit entries of list
printTable(list) ==
    LET limit == IF Len(list) < topN THEN Len(list) ELSE topN
    IN  SubSeq(list, 1, limit)

\* Sort by size and print the first table
PrintBySize ==
    /\ pc = "sortSize"
    /\ \E list \in SortSlice(statsList, SizeKey) : sizeView' = printTable(list)
    /\ pc' = "sortCount"
    /\ UNCHANGED <<env, targetPaths, dirStats, rootIdx, todo, totalFiles, pending,
                   statsList, countView, direct, recorded, diag>>

\* Sort by file count and print the second table
PrintByCount ==
    /\ pc = "sortCount"
    /\ \E list \in SortSlice(statsList, CountKey) : countView' = printTable(list)
    /\ pc' = "done"
    /\ UNCHANGED <<env, targetPaths, dirStats, rootIdx, todo, totalFiles, pending,
                   statsList, sizeView, direct, recorded, diag>>

Next ==
    \/ Normalize
    \/ StartRoot
    \/ WalkEntry
    \/ AggStart
    \/ AggStep
    \/ Filter
    \/ PrintBySize
    \/ PrintByCount

\* ------------------------------------------------------------------------
\* Bounded inputs: filesystems, requested roots, options
\* ------------------------------------------------------------------------

\* Most directories of a filesystem, the root directory included
MaxDirs == 3

\* Deepest directory level below "/"
MaxTreeDepth == 2

\* Most files of a filesystem
MaxFiles == 2

\* Most requested roots
MaxRoots == 3

\* Largest depth limit tried (-1 is "no limit")
MaxMaxDepth == 1

\* Largest top-N tried
MaxTopN == 2

\* Directory names "a", "a-", "run"; file name "f"
DirNames == { <<97>>, <<97, 45>>, <<114, 117, 110>> }

FileName == <<102>>

FileSizes == {1, 3}

\* The directory sets with at most n directories: "/" and directories
\* whose parent is in the set
RECURSIVE Trees(_)
Trees(n) ==
    IF n <= 1 THEN { {SepStr} }
    ELSE LET T == Trees(n - 1) IN
         T \cup UNION { UNION { { t \cup {Join(d, nm)} : nm \in DirNames } :
                                d \in {e \in t : (IF e = SepStr THEN 0 ELSE CountSep(e)) < MaxTreeDepth} } :
                        t \in T }

\* The files a directory set can hold: at most MaxFiles files named "f",
\* each of a size in sizes
FileMaps(D, sizes) ==
    UNION { [F -> sizes] :
            F \in {G \in SUBSET {Join(d, FileName) : d \in D} : Cardinality(G) <= MaxFiles} }

\* Requested roots that need not exist or are not in canonical form:
\* "/a-", ".", "a/", "/a/../a"
OddRoots == { <<47, 97, 45>>, <<46>>, <<97, 47>>, <<47, 97, 47, 46, 46, 47, 97>> }

\* The lists of at most n distinct roots drawn from C, in ascending order
RootLists(C, n) ==
    { SetToSortedSeq(R) : R \in {Q \in SUBSET C : Cardinality(Q) <= n} }

\* The state of main at position start, for given inputs
InitWith(start, dirs, files, bad, cwd, roots, depth, top) ==
    /\ pc = start
    /\ wd = cwd
    /\ fsDirs = dirs
    /\ fsFiles = files
    /\ fsBad = bad
    /\ targetPaths = roots
    /\ requested = roots
    /\ maxDepth = depth
    /\ topN = top
    /\ dirStats = [p \in {} |-> ZeroStat]
    /\ rootIdx = 1
    /\ todo = <<>>
    /\ totalFiles = 0
    /\ pending = {}
    /\ statsList = {}
    /\ sizeView = <<>>
    /\ countView = <<>>
    /\ direct = [p \in {} |-> ZeroStat]
    /\ recorded = <<>>
    /\ diag = <<>>

\* Most entries of a filesystem whose read fails
MaxBad == 1

\* Most requested roots of the runs with failures
MaxFailRoots == 2

\* The working directory of the runs: "/a"
WorkDir == <<47, 97>>

\* Runs without read failures: every filesystem, up to MaxRoots roots among
\* its entries and "/a-", every depth limit
InitPlain ==
    \E dirs \in Trees(MaxDirs) :
    \E files \in FileMaps(dirs, FileSizes) :
    \E roots \in RootLists(dirs \cup DOMAIN files \cup { <<47, 97, 45>> }, MaxRoots) :
    \E depth \in -1..MaxMaxDepth :
        /\ roots # <<>>
        /\ InitWith("normalize", dirs, files, {}, WorkDir, roots, depth, MaxTopN)
        /\ verbose = FALSE

\* Runs with failures: entries whose read fails, a working directory that
\* cannot be determined, roots that do not exist or are relative
InitFailing ==
    \E dirs \in Trees(MaxDirs) :
    \E files \in FileMaps(dirs, {1}) :
    \E bad \in {B \in SUBSET (dirs \cup DOMAIN files) : Cardinality(B) <= MaxBad} :
    \E cwd \in {WorkDir, NoDir} :
    \E roots \in RootLists(dirs \cup DOMAIN files \cup OddRoots, MaxFailRoots) :
        /\ roots # <<>>
        /\ bad # {} \/ cwd = NoDir \/ \E i \in 1..Len(roots) : roots[i] \in OddRoots
        /\ InitWith("normalize", dirs, files, bad, cwd, roots, -1, MaxTopN)
        /\ verbose \in BOOLEAN

\* Runs over whole subtrees, for every top-N
InitViews ==
    \E dirs \in Trees(MaxDirs) :
    \E files \in FileMaps(dirs, FileSizes) :
    \E roots \in RootLists(dirs, MaxRoots) :
    \E top \in 0..MaxTopN :
        /\ roots # <<>>
        /\ InitWith("normalize", dirs, files, {}, WorkDir, roots, -1, top)
        /\ verbose = FALSE

\* Directory names as long as a two-level path: "run", "a-a"
LongNames == { <<114, 117, 110>>, <<97, 45, 97>> }

\* Most requested roots of the runs over long names
MaxLongRoots == 2

\* Runs over a filesystem where a directory directly below "/" has a path
\* as long as that of the directory "/a/a" two levels down
InitLong ==
    \E nm \in LongNames :
    \E files \in FileMaps({SepStr, <<47, 97>>, <<47, 97, 47, 97>>, Join(SepStr, nm)}, {1}) :
    \E roots \in RootLists({SepStr, <<47, 97>>, <<47, 97, 47, 97>>, Join(SepStr, nm)}
                              \cup DOMAIN files, MaxLongRoots) :
        /\ roots # <<>>
        /\ InitWith("normalize", {SepStr, <<47, 97>>, <<47, 97, 47, 97>>, Join(SepStr, nm)},
                    files, {}, WorkDir, roots, -1, MaxTopN)
        /\ verbose = FALSE

Init == InitPlain \/ InitFailing \/ InitViews \/ InitLong

Spec == Init /\ [][Next]_vars

\* ------------------------------------------------------------------------
\* Normalization of arbitrary --path lists
\* ------------------------------------------------------------------------

\* The defaults of maxDepth and topN
DefaultMaxDepth == 1000000

DefaultTopN == 20

\* The paths --path is given: every directory of every filesystem, a file,
\* and the roots that are not in canonical form
PathArgs ==
    UNION Trees(MaxDirs) \cup OddRoots \cup { <<47, 97, 47, 102>> }

\* parseArgs, case "--path": one more argument is appended to targetPaths
ParsePath ==
    /\ pc = "parse"
    /\ Len(targetPaths) < MaxRoots
    /\ \E p \in PathArgs :
          /\ targetPaths' = Append(targetPaths, p)
          /\ requested' = Append(targetPaths, p)
    /\ UNCHANGED <<pc, wd, fsDirs, fsFiles, fsBad, maxDepth, topN, dirStats, rootIdx,
                   todo, totalFiles, pending, report, direct, recorded, verbose, diag>>

\* parseArgs, the end of the arguments: "." is the root when none was given
ParseDone ==
    /\ pc = "parse"
    /\ targetPaths' = IF Len(targetPaths) = 0 THEN <<DotStr>> ELSE targetPaths
    /\ requested' = targetPaths'
    /\ pc' = "normalize"
    /\ UNCHANGED <<wd, fsDirs, fsFiles, fsBad, maxDepth, topN, dirStats, rootIdx,
                   todo, totalFiles, pending, report, direct, recorded, verbose, diag>>

\* The start of main, before parseArgs, on a filesystem that holds "/" only
InitNorm ==
    \E cwd \in {WorkDir, NoDir} :
        /\ InitWith("parse", {SepStr}, [f \in {} |-> 0], {}, cwd, <<>>,
                    DefaultMaxDepth, DefaultTopN)
        /\ verbose = FALSE

NextNorm ==
    \/ ParsePath
    \/ ParseDone
    \/ Normalize

SpecNorm == InitNorm /\ [][NextNorm]_vars

\* ------------------------------------------------------------------------
\* Vocabulary of the properties
\* ------------------------------------------------------------------------

\* The names on the way from "/" to an absolute path
PathSegs(p) == SelectSeq(SplitSep(p), LAMBDA x : x # <<>>)

\* p lies strictly below a, path-wise
StrictUnder(p, a) ==
    /\ Len(PathSegs(a)) < Len(PathSegs(p))
    /\ SubSeq(PathSegs(p), 1, Len(PathSegs(a))) = PathSegs(a)

\* p is a or lies below a
Under(p, a) == p = a \/ StrictUnder(p, a)

\* The elements of a sequence
Range(seq) == {seq[i] : i \in 1..Len(seq)}

\* No duplicates and no element strictly below another one
NoOverlap(list) ==
    \A i, j \in 1..Len(list) :
        i # j => list[i] # list[j] /\ ~StrictUnder(list[i], list[j])

\* removeSubdirectories has returned
Normalized == pc \notin {"parse", "normalize"}

\* ------------------------------------------------------------------------
\* C1..C10
\* ------------------------------------------------------------------------

\* C1: the list removeSubdirectories returns has no duplicates and no
\* element that is a strict descendant of another element of the list.
C1_NormalizedRootsDisjoint == Normalized => NoOverlap(targetPaths)

\* C8: normalization is idempotent: normalizing the list that
\* removeSubdirectories returned gives that list again.
C8_NormalizeIdempotent ==
    Normalized => removeSubdirectories(targetPaths, wd) = targetPaths

\* C8 witness: a list of three arguments that normalization changed and of
\* which it kept two roots.
C8_Witness ==
    /\ Normalized
    /\ Len(requested) = 3
    /\ Len(targetPaths) = 2
    /\ \E i \in 1..3 : requested[i] \notin Range(targetPaths)

\* The two arguments resolve, and the j-th is a strict descendant of the i-th
DescendantPair(i, j) ==
    /\ Len(requested) = 2
    /\ ~AbsFails(requested[1], wd) /\ ~AbsFails(requested[2], wd)
    /\ StrictUnder(Abs(requested[j], wd), Abs(requested[i], wd))

\* C9: for a path p and one strict descendant of p, in either order,
\* removeSubdirectories returns exactly the list [p].
C9_SubtreeAbsorbed ==
    Normalized =>
        \A i, j \in 1..2 :
            DescendantPair(i, j) => targetPaths = <<Abs(requested[i], wd)>>

\* C9 witness: the descendant was given first and only its ancestor is left.
C9_Witness ==
    /\ Normalized
    /\ DescendantPair(2, 1)
    /\ targetPaths = <<Abs(requested[2], wd)>>
    /\ requested[2] # SepStr

\* aggregateStats has run to completion
Aggregated == pc \in {"sortSize", "sortCount", "done"} \/ (pc = "aggregate" /\ pending = {})

\* The sum of the sizes, and of the file counts, of the entries S of stats
RECURSIVE SumSize(_, _)
SumSize(stats, S) ==
    IF S = {} THEN 0
    ELSE LET e == CHOOSE x \in S : TRUE
         IN  stats[e].TotalSize + SumSize(stats, S \ {e})

RECURSIVE SumCount(_, _)
SumCount(stats, S) ==
    IF S = {} THEN 0
    ELSE LET e == CHOOSE x \in S : TRUE
         IN  stats[e].FileCount + SumCount(stats, S \ {e})

\* The entries of the collection in the subtree of d, d included
Subtree(d) == {e \in DOMAIN direct : Under(e, d)}

\* C2: after aggregateStats, the TotalSize of every directory d of the
\* collection is the sum of the direct sizes of d and of every directory of
\* the collection in d's subtree, and its FileCount the sum of their direct
\* file counts.
C2_Conservation ==
    Aggregated =>
        \A d \in DOMAIN dirStats :
            /\ dirStats[d].TotalSize = SumSize(direct, Subtree(d))
            /\ dirStats[d].FileCount = SumCount(direct, Subtree(d))

\* e is d, or every directory from e's parent up to d has an entry: the
\* chain of parents from e reaches d inside the collection
RECURSIVE Linked(_, _)
Linked(e, d) ==
    \/ e = d
    \/ /\ Dir(e) # e
       /\ Dir(e) \in DOMAIN direct
       /\ Linked(Dir(e), d)

\* The entries of the collection linked to d
LinkedSubtree(d) == {e \in DOMAIN direct : Linked(e, d)}

\* C2 (amended): after aggregateStats, the totals of every directory d of
\* the collection are the sums of the direct totals of d and of the
\* directories of its subtree that are linked to d through the collection;
\* a directory whose parent has no entry is added into no ancestor.
C2_ConservationLinked ==
    Aggregated =>
        \A d \in DOMAIN dirStats :
            /\ dirStats[d].TotalSize = SumSize(direct, LinkedSubtree(d))
            /\ dirStats[d].FileCount = SumCount(direct, LinkedSubtree(d))

\* C2 witness: a directory with files of its own has received the files of
\* a directory two levels below it.
C2_Witness ==
    /\ Aggregated
    /\ \E d, e \in DOMAIN dirStats :
          /\ Linked(e, d)
          /\ StrictUnder(Dir(e), d)
          /\ direct[d].FileCount > 0
          /\ direct[e].TotalSize > 1
          /\ dirStats[d].TotalSize = direct[d].TotalSize + direct[e].TotalSize

\* The scan loop of main is over
Scanned == pc \in {"aggregate", "sortSize", "sortCount", "done"}

\* statsList has been built
Filtered == pc \in {"sortSize", "sortCount", "done"}

\* The distinct files scanDirectory recorded below d
FilesUnder(d) == {f \in {r.file : r \in Range(recorded)} : StrictUnder(f, d)}

\* C3: over a whole run every file that is not pruned is counted exactly
\* once: the FileCount of every reported directory d is the number of
\* distinct recorded files under d, whatever roots were requested.
C3_EachFileOnce ==
    Filtered =>
        \A d \in statsList : dirStats[d].FileCount = Cardinality(FilesUnder(d))

\* The roots main scans, as scanDirectory receives them
Roots == {Abs(targetPaths[i], wd) : i \in 1..Len(targetPaths)}

Excluded == fsDirs \cap excludePaths

\* C5: an excluded directory is never descended into and gets no entry, and
\* after aggregation no file beneath it contributes to the totals of any
\* ancestor, an ancestor that is a search root included.
C5_ExcludedContributesNothing ==
    \A x \in Excluded :
        /\ x \notin DOMAIN dirStats
        /\ \A i \in 1..Len(recorded) : ~StrictUnder(recorded[i].file, x)
        /\ Aggregated =>
             \A d \in DOMAIN dirStats :
                StrictUnder(x, d) =>
                    /\ dirStats[d].TotalSize =
                         SumSize(direct, {e \in LinkedSubtree(d) : ~Under(e, x)})
                    /\ dirStats[d].FileCount =
                         SumCount(direct, {e \in LinkedSubtree(d) : ~Under(e, x)})

\* C5 (amended): a walk that meets an excluded directory, as its root or
\* below it, never descends into it; and when no scanned root lies strictly
\* inside the excluded directory, the directory gets no entry, no file
\* beneath it is recorded and after aggregation nothing beneath it
\* contributes to the totals of any ancestor, a search root included.
C5_ExcludedPrunedFromOutside ==
    \A x \in Excluded :
        /\ \A i \in 1..Len(recorded) :
             StrictUnder(recorded[i].file, x) => StrictUnder(recorded[i].root, x)
        /\ (\A r \in Roots : ~StrictUnder(r, x)) =>
             /\ \A e \in DOMAIN dirStats : ~Under(e, x)
             /\ \A i \in 1..Len(recorded) : ~StrictUnder(recorded[i].file, x)
             /\ Aggregated =>
                  \A d \in DOMAIN dirStats :
                     StrictUnder(x, d) =>
                         /\ dirStats[d].TotalSize =
                              SumSize(direct, {e \in LinkedSubtree(d) : ~Under(e, x)})
                         /\ dirStats[d].FileCount =
                              SumCount(direct, {e \in LinkedSubtree(d) : ~Under(e, x)})

\* C5 witness: the root "/" was scanned without depth limit, the excluded
\* directory "/run" holds a file, and "/" ends with the one file outside it.
C5_Witness ==
    /\ Aggregated
    /\ maxDepth = -1
    /\ SepStr \in Roots
    /\ \E x \in Excluded :
          /\ Join(x, FileName) \in DOMAIN fsFiles
          /\ Join(SepStr, FileName) \in DOMAIN fsFiles
          /\ dirStats[SepStr].FileCount = 1

\* C6: every entry that reaches the result views is one of the normalized
\* roots or a path-wise descendant of one.
C6_ReportedUnderRoots ==
    Filtered => \A p \in statsList : \E r \in Roots : Under(p, r)

\* The smaller of two numbers
Min(a, b) == IF a < b THEN a ELSE b

\* view lists min(topN, M) distinct entries of statsList in non-increasing
\* order of key, and no entry left out has a larger key than a listed one
TopView(view, key) ==
    /\ Len(view) = Min(topN, Cardinality(statsList))
    /\ Range(view) \subseteq statsList
    /\ \A i, j \in 1..Len(view) : i < j => view[i] # view[j] /\ key[view[i]] >= key[view[j]]
    /\ \A o \in statsList \ Range(view) : \A i \in 1..Len(view) : key[o] <= key[view[i]]

\* C7: each view lists exactly min(topN, M) of the M filtered entries in
\* non-increasing order of its metric, no omitted entry has a larger metric
\* than a listed one, and topN = 0 gives two empty views.
C7_TopNViews ==
    /\ pc \in {"sortCount", "done"} => TopView(sizeView, SizeKey)
    /\ pc = "done" => TopView(countView, CountKey)
    /\ (pc = "done" /\ topN = 0) => (sizeView = <<>> /\ countView = <<>>)

\* C7 witness: topN = 1 and two entries; the size view lists the strictly
\* larger one and the count view lists the other one.
C7_Witness ==
    /\ pc = "done"
    /\ topN = 1
    /\ Cardinality(statsList) = 2
    /\ \E o \in statsList \ Range(sizeView) : SizeKey[o] < SizeKey[sizeView[1]]
    /\ countView[1] # sizeView[1]

\* The walk from root r hands entry e to the callback and the callback does
\* not prune it: e exists, is neither excluded nor below the depth limit,
\* and is r or an entry of a visited directory whose listing can be read
RECURSIVE Visited(_, _)
Visited(r, e) ==
    /\ Exists(e)
    /\ ~(e \in fsDirs /\ e \in excludePaths)
    /\ ~(maxDepth # -1 /\ CountSep(e) - CountSep(r) > maxDepth)
    /\ \/ e = r
       \/ /\ StrictUnder(e, r)
          /\ Dir(e) \notin fsBad
          /\ Visited(r, Dir(e))

\* C10: a failure on one entry or one root never aborts the run. An entry
\* whose read fails is skipped and the walk goes on: every readable file
\* the walk of a root reaches is recorded for that root and every directory
\* it reaches has an entry, whatever failed before them; a root that does
\* not exist contributes nothing; an argument that cannot be resolved is
\* dropped while the others stay; and the run ends only after every root
\* was handled, aggregateStats has processed every entry and both tables
\* were printed from the filtered entries.
C10_FailuresDoNotAbort ==
    /\ Scanned =>
         \A r \in Roots :
            /\ \A f \in DOMAIN fsFiles \ fsBad :
                 Visited(r, f) =>
                    \E i \in 1..Len(recorded) : recorded[i] = [root |-> r, file |-> f]
            /\ \A e \in fsDirs : Visited(r, e) => e \in DOMAIN dirStats
            /\ ~Exists(r) => \A i \in 1..Len(recorded) : recorded[i].root # r
    /\ Normalized =>
         \A i \in 1..Len(requested) :
            ~AbsFails(requested[i], wd) =>
                \E r \in Roots : Under(Abs(requested[i], wd), r)
    /\ pc = "done" =>
         /\ rootIdx = Len(targetPaths) + 1
         /\ pending = {}
         /\ statsList = {p \in DOMAIN dirStats : isUnderTargets(p)}
         /\ Len(sizeView) = Min(topN, Cardinality(statsList))
         /\ Len(countView) = Min(topN, Cardinality(statsList))

\* C10 witness: the run is over, the read of an entry failed during the
\* walk of a root, and a file that follows the failed entry in the same
\* directory was recorded by that walk.
C10_Witness ==
    /\ pc = "done"
    /\ \E b \in fsBad : \E i \in 1..Len(recorded) :
          /\ Visited(recorded[i].root, b)
          /\ Dir(b) = Dir(recorded[i].file)
          /\ StrLess(b, recorded[i].file)

\* ------------------------------------------------------------------------
\* C11..C18
\* ------------------------------------------------------------------------

\* C11: a diagnostic is written only when verbose is enabled: with verbose
\* disabled no run prints a warning or an error diagnostic.
C11_DiagnosticsOnlyWhenVerbose == ~verbose => diag = <<>>

\* The directory the step of aggregateStats being taken processes
Processed == pending \ pending'

\* aggregateStats is in its accumulation loop and takes one iteration
AggIteration == pc = "aggregate" /\ pending' # pending

\* The directories of the collection the loop has processed so far
Done == DOMAIN dirStats \ pending

\* C12: at the moment aggregateStats processes a directory d, every
\* directory of the collection that is a descendant of d has already been
\* processed.
C12_DescendantsFirst ==
    [][AggIteration =>
          \A d \in Processed : \A q \in DOMAIN dirStats :
              StrictUnder(q, d) => q \notin pending]_vars

\* A directory with a descendant in the collection has been processed
\* while another directory is still to come
C12_Witness ==
    /\ pc = "aggregate"
    /\ pending # {}
    /\ \E d \in Done : \E q \in DOMAIN dirStats : StrictUnder(q, d)

RecordsFile == pc = "walk" /\ todo # <<>> /\ Counts(Head(todo)) /\ recorded' # recorded

\* The entry of path in stats, or the zero entry when there is none
EntryOf(stats, path) == IF path \in DOMAIN stats THEN stats[path] ELSE ZeroStat

\* C14: during scanDirectory, recording a file changes only the entry of
\* the file's immediate parent directory, whose size grows by the file's
\* size and whose file count grows by one; the entries of all other
\* directories, every higher ancestor included, are left unchanged.
C14_RecordChangesParentOnly ==
    [][RecordsFile =>
          LET f == Head(todo)
              parent == Dir(f)
          IN  /\ DOMAIN dirStats' = DOMAIN dirStats \cup {parent}
              /\ dirStats'[parent].TotalSize =
                     EntryOf(dirStats, parent).TotalSize + fsFiles[f]
              /\ dirStats'[parent].FileCount =
                     EntryOf(dirStats, parent).FileCount + 1
              /\ \A p \in DOMAIN dirStats :
                     p # parent => dirStats'[p] = dirStats[p]]_vars

\* A file has just been recorded two levels below a directory that has an
\* entry: its parent holds it, the higher ancestor holds nothing
C14_Witness ==
    /\ pc \in {"walk", "scan"}
    /\ recorded # <<>>
    /\ LET f == recorded[Len(recorded)].file
       IN  /\ Dir(Dir(f)) # Dir(f)
           /\ Dir(Dir(f)) \in DOMAIN dirStats
           /\ dirStats[Dir(f)].FileCount > 0
           /\ dirStats[Dir(Dir(f))].FileCount = 0

\* Directory e holds no file and no subdirectory
EmptyDir(e) ==
    /\ e \in fsDirs
    /\ \A x \in fsDirs \cup DOMAIN fsFiles : x # e => Dir(x) # e

\* The directories the walks of the run visited and did not prune
VisitedDirs == {e \in fsDirs : \E r \in Roots : Visited(r, e)}

\* C15: every directory that the walk visits and does not prune has an
\* entry in the collection after the scan (one entry: the collection is
\* keyed by path), a directory without files and subdirectories included,
\* and the size and file count of such an empty directory are 0 after
\* aggregation.
C15_VisitedDirsHaveEntry ==
    /\ Scanned => VisitedDirs \subseteq DOMAIN dirStats
    /\ Scanned => \A e \in VisitedDirs : EmptyDir(e) => direct[e] = ZeroStat
    /\ Aggregated => \A e \in VisitedDirs : EmptyDir(e) => dirStats[e] = ZeroStat

\* Aggregation is over, an empty directory that was visited has its zero
\* entry, and the directory above it has files
C15_Witness ==
    /\ Aggregated
    /\ \E e \in VisitedDirs :
          /\ EmptyDir(e)
          /\ Dir(e) # e
          /\ e \in DOMAIN dirStats
          /\ dirStats[e] = ZeroStat
          /\ Dir(e) \in DOMAIN dirStats
          /\ dirStats[Dir(e)].FileCount > 0

\* The number of path segments between entry e and root r
SegmentsBelow(e, r) == Len(PathSegs(e)) - Len(PathSegs(r))

\* C16: for every root, "/" included, the depth scanDirectory computes for
\* an entry is the number of path segments between the entry and the root
\* (0 for the root, 1 for its direct children), so that no entry more than
\* maxDepth segments below the root is visited unpruned and no file more
\* than maxDepth segments below the root is counted.
C16_DepthIsSegments ==
    /\ (pc = "walk" /\ todo # <<>>) =>
          /\ CurrentDepth(Head(todo)) = SegmentsBelow(Head(todo), CurrentRoot)
          /\ (maxDepth # -1 /\ SegmentsBelow(Head(todo), CurrentRoot) > maxDepth) =>
                Pruned(Head(todo))
    /\ maxDepth # -1 =>
          \A i \in 1..Len(recorded) :
              SegmentsBelow(recorded[i].file, recorded[i].root) <= maxDepth

\* C17: in one run of aggregateStats every directory d of the collection is
\* processed at most once, and its totals are added into its immediate
\* parent only, and only when that parent is in the collection; a directory
\* that is its own parent is not added into itself, and aggregation creates
\* and removes no entry.
C17_AddedOnceIntoParent ==
    [][AggIteration =>
          /\ pending' \subseteq pending
          /\ Cardinality(Processed) = 1
          /\ DOMAIN dirStats' = DOMAIN dirStats
          /\ \A d \in Processed :
                /\ \A p \in DOMAIN dirStats :
                      p # Dir(d) => dirStats'[p] = dirStats[p]
                /\ Dir(d) = d => dirStats'[d] = dirStats[d]
                /\ (Dir(d) # d /\ Dir(d) \in DOMAIN dirStats) =>
                      /\ dirStats'[Dir(d)].TotalSize =
                            dirStats[Dir(d)].TotalSize + dirStats[d].TotalSize
                      /\ dirStats'[Dir(d)].FileCount =
                            dirStats[Dir(d)].FileCount + dirStats[d].FileCount]_vars

\* Aggregation is over on a collection that holds "/", its own parent,
\* with files of its own and a directory below it that was added into it
C17_Witness ==
    /\ pc = "aggregate"
    /\ pending = {}
    /\ SepStr \in DOMAIN dirStats
    /\ direct[SepStr].FileCount > 0
    /\ \E d \in DOMAIN dirStats :
          /\ d # SepStr
          /\ Dir(d) = SepStr
          /\ dirStats[d].FileCount > 0
          /\ dirStats[SepStr].FileCount = direct[SepStr].FileCount + dirStats[d].FileCount

\* The path of rest that one fixed length-descending order processes
\* first: the longest, and among the longest the first in byte order
FirstInOrder(rest) ==
    CHOOSE x \in rest :
        \A y \in rest :
            y = x \/ Len(y) < Len(x) \/ (Len(y) = Len(x) /\ StrLess(x, y))

\* The totals the accumulation loop computes from stats when it processes
\* the paths of rest in that fixed order
RECURSIVE TotalsInOrder(_, _)
TotalsInOrder(stats, rest) ==
    IF rest = {} THEN stats
    ELSE TotalsInOrder(Accumulate(stats, FirstInOrder(rest)),
                       rest \ {FirstInOrder(rest)})

\* C18: the totals aggregateStats computes are deterministic: for a fixed
\* collection of direct totals, every processing order the length-descending
\* sort can produce, whatever the order among paths of equal length, ends
\* with the size and file count that one fixed such order computes.
C18_OrderIndependent ==
    Aggregated => dirStats = TotalsInOrder(direct, DOMAIN direct)

\* Aggregation is over on a collection with two paths of equal length, which
\* the sort may put in either order, both with files and with their parent
\* in the collection
C18_Witness ==
    /\ Aggregated
    /\ \E p, q \in DOMAIN dirStats :
          /\ p # q
          /\ Len(p) = Len(q)
          /\ direct[p].FileCount > 0
          /\ direct[q].FileCount > 0
          /\ Dir(p) \in DOMAIN dirStats
          /\ Dir(q) \in DOMAIN dirStats

====
